---- MODULE Spec2Model ----
(***************************************************************************)
(* The pomodoro timer's state machine: SessionInfo behind a lock, the      *)
(* Timer operations of timer.rs, the one-second tick loop and completion   *)
(* protocol, the autosave loop and the command handlers of app.rs.         *)
(* Every action is one critical section on SessionInfo.                    *)
(***************************************************************************)
EXTENDS Integers, Sequences, FiniteSets, TLC

(* ------------------------------ bounds -------------------------------- *)

\* Largest counter value held by a persisted snapshot.
MaxLoadSecs == 2

\* How many seconds below a configured full duration a countdown is followed.
TickWindow == 2

\* Largest wall-clock reading (Utc::now()).
MaxClock == 1

\* Largest value of completed_sessions that is followed.
MaxCompleted == 4

\* Largest sessions_until_long_break of the configurations considered.
MaxSessions == 2

\* Number of timer ids handed out in the history specification: enough to
\* fill the history and evict twice.
MaxIds == 52

\* Number of timer ids the commands specification hands out after the first.
MaxTimers == 3

(* ----------------------------- constants ------------------------------ *)

\* Seconds per minute, the factor of Config::*_duration_secs.
SecsPerMin == 60

\* The number of timers SessionInfo::add_to_history keeps.
HistoryCap == 50

(* ------------------------------ state.rs ------------------------------ *)

TimerState ==
    {"Idle", "Working", "WorkPaused", "ShortBreak", "BreakPaused",
     "LongBreak", "LongBreakPaused"}

\* Option::None of TimerState::pause / TimerState::resume.
None == "None"

is_paused(s) == s \in {"WorkPaused", "BreakPaused", "LongBreakPaused"}

is_running(s) == s \in {"Working", "ShortBreak", "LongBreak"}

is_work(s) == s \in {"Working", "WorkPaused"}

is_break(s) == s \in {"ShortBreak", "BreakPaused", "LongBreak", "LongBreakPaused"}

\* TimerState::pause with the short break paired with the long break's
\* paused state.
TimerState_pause_crossed(s) ==
    CASE s = "Working" -> "WorkPaused"
      [] s = "ShortBreak" -> "LongBreakPaused"
      [] s = "LongBreak" -> "LongBreakPaused"
      [] OTHER -> None

TimerState_pause(s) ==
    CASE s = "Working" -> "WorkPaused"
      [] s = "ShortBreak" -> "BreakPaused"
      [] s = "LongBreak" -> "LongBreakPaused"
      [] OTHER -> None

TimerState_resume(s) ==
    CASE s = "WorkPaused" -> "Working"
      [] s = "BreakPaused" -> "ShortBreak"
      [] s = "LongBreakPaused" -> "LongBreak"
      [] OTHER -> None

\* TimerState::display_name.
display_name(s) ==
    CASE s = "Idle" -> "Ready"
      [] s \in {"Working", "WorkPaused"} -> "Work Session"
      [] s \in {"ShortBreak", "BreakPaused"} -> "Short Break"
      [] OTHER -> "Long Break"

(* ------------------------------ config.rs ----------------------------- *)

\* Validated configurations (Config::validate: every duration and the
\* session count are greater than 0).  Durations are in minutes; with these
\* values no u32 product or increment of the program overflows.
Configs ==
    [work_duration : {1}, short_break_duration : {2}, long_break_duration : {3},
     sessions_until_long_break : 1..MaxSessions,
     enable_notifications : BOOLEAN]

work_duration_secs(c) == c.work_duration * SecsPerMin

short_break_duration_secs(c) == c.short_break_duration * SecsPerMin

long_break_duration_secs(c) == c.long_break_duration * SecsPerMin

(* ------------------------------ state ---------------------------------- *)

VARIABLES
    config,     \* the validated Config handed to PomodoroApp::new
    info,       \* the shared SessionInfo (Arc<Mutex<SessionInfo>>)
    disk,       \* the snapshot file state.json
    clock,      \* the last reading of Utc::now()
    tick_pc,    \* position of the tick loop: "sleep" or "complete"
    task,       \* the command handler in flight
    notified,   \* the notifications dispatched so far, in order
    pre,        \* SessionInfo before the last critical section
    op,         \* the last critical section that ran
    lock        \* the tasks holding the Mutex of SessionInfo

vars == <<config, info, disk, clock, tick_pc, task, notified, pre, op, lock>>

\* Readings Utc::now() can return: never earlier than the last reading.
Now == clock..MaxClock

\* SessionInfo::new.  t is Utc::now(), id the fresh uuid.
SessionInfo_new(t, id) ==
    [current_state |-> "Idle",
     time_remaining_secs |-> 0,
     current_session |-> 1,
     completed_sessions |-> 0,
     last_updated |-> t,
     current_id |-> id,
     current_label |-> "",
     history |-> <<>>,
     history_index |-> <<>>]

\* The two fields of the dual-track SessionInfo that app.rs reads and writes
\* and SessionInfo::new of state.rs does not list.
DualTrack == [rest_time_remaining_secs |-> 0, is_focus_mode |-> TRUE]

(* ------------------------------ timer.rs ------------------------------- *)

start_work(i, c, t) ==
    [i EXCEPT !.current_state = "Working",
              !.time_remaining_secs = work_duration_secs(c),
              !.last_updated = t]

start_short_break(i, c, t) ==
    [i EXCEPT !.current_state = "ShortBreak",
              !.time_remaining_secs = short_break_duration_secs(c),
              !.last_updated = t]

start_long_break(i, c, t) ==
    [i EXCEPT !.current_state = "LongBreak",
              !.time_remaining_secs = long_break_duration_secs(c),
              !.last_updated = t]

\* Timer::pause that also clears the countdown.
pause_clearing(i, t) ==
    IF TimerState_pause(i.current_state) # None
    THEN [i EXCEPT !.current_state = TimerState_pause(i.current_state),
                   !.time_remaining_secs = 0,
                   !.last_updated = t]
    ELSE i

\* Timer::pause that stamps last_updated outside the if.
pause_stamping(i, t) ==
    IF TimerState_pause(i.current_state) # None
    THEN [i EXCEPT !.current_state = TimerState_pause(i.current_state),
                   !.last_updated = t]
    ELSE [i EXCEPT !.last_updated = t]

pause(i, t) ==
    IF TimerState_pause(i.current_state) # None
    THEN [i EXCEPT !.current_state = TimerState_pause(i.current_state),
                   !.last_updated = t]
    ELSE i

\* Timer::resume that treats every state that is not paused as Idle and
\* starts it.
resume_starting(i, t) ==
    IF TimerState_resume(i.current_state) # None
    THEN [i EXCEPT !.current_state = TimerState_resume(i.current_state),
                   !.last_updated = t]
    ELSE [i EXCEPT !.current_state = "Working", !.last_updated = t]

resume(i, t) ==
    IF TimerState_resume(i.current_state) # None
    THEN [i EXCEPT !.current_state = TimerState_resume(i.current_state),
                   !.last_updated = t]
    ELSE i

reset(i, t) ==
    [i EXCEPT !.current_state = "Idle",
              !.time_remaining_secs = 0,
              !.last_updated = t]

\* Timer::skip_to_next with ">" for ">=" in the long-break test.
skip_to_next_strict(i, c, t) ==
    LET j == CASE is_work(i.current_state) ->
                    IF i.current_session > c.sessions_until_long_break
                    THEN [i EXCEPT !.completed_sessions = @ + 1,
                                   !.current_state = "LongBreak",
                                   !.time_remaining_secs = long_break_duration_secs(c),
                                   !.current_session = 1]
                    ELSE [i EXCEPT !.completed_sessions = @ + 1,
                                   !.current_state = "ShortBreak",
                                   !.time_remaining_secs = short_break_duration_secs(c),
                                   !.current_session = @ + 1]
               [] is_break(i.current_state) ->
                    [i EXCEPT !.current_state = "Working",
                              !.time_remaining_secs = work_duration_secs(c)]
               [] OTHER ->
                    [i EXCEPT !.current_state = "Working",
                              !.time_remaining_secs = work_duration_secs(c),
                              !.current_session = 1]
    IN [j EXCEPT !.last_updated = t]

\* Timer::skip_to_next that leaves current_session alone before a short break.
skip_to_next_uncounted(i, c, t) ==
    LET j == CASE is_work(i.current_state) ->
                    IF i.current_session >= c.sessions_until_long_break
                    THEN [i EXCEPT !.completed_sessions = @ + 1,
                                   !.current_state = "LongBreak",
                                   !.time_remaining_secs = long_break_duration_secs(c),
                                   !.current_session = 1]
                    ELSE [i EXCEPT !.completed_sessions = @ + 1,
                                   !.current_state = "ShortBreak",
                                   !.time_remaining_secs = short_break_duration_secs(c)]
               [] is_break(i.current_state) ->
                    [i EXCEPT !.current_state = "Working",
                              !.time_remaining_secs = work_duration_secs(c)]
               [] OTHER ->
                    [i EXCEPT !.current_state = "Working",
                              !.time_remaining_secs = work_duration_secs(c),
                              !.current_session = 1]
    IN [j EXCEPT !.last_updated = t]

\* Timer::skip_to_next with the break arm merged into the Idle arm.
skip_to_next_merged(i, c, t) ==
    LET j == CASE is_work(i.current_state) ->
                    IF i.current_session >= c.sessions_until_long_break
                    THEN [i EXCEPT !.completed_sessions = @ + 1,
                                   !.current_state = "LongBreak",
                                   !.time_remaining_secs = long_break_duration_secs(c),
                                   !.current_session = 1]
                    ELSE [i EXCEPT !.completed_sessions = @ + 1,
                                   !.current_state = "ShortBreak",
                                   !.time_remaining_secs = short_break_duration_secs(c),
                                   !.current_session = @ + 1]
               [] OTHER ->
                    [i EXCEPT !.current_state = "Working",
                              !.time_remaining_secs = work_duration_secs(c),
                              !.current_session = 1]
    IN [j EXCEPT !.last_updated = t]

\* Timer::skip_to_next that starts the count of completed sessions again
\* when it starts a cycle from Idle or a paused break.
skip_to_next_recounting(i, c, t) ==
    LET j == CASE is_work(i.current_state) ->
                    IF i.current_session >= c.sessions_until_long_break
                    THEN [i EXCEPT !.completed_sessions = @ + 1,
                                   !.current_state = "LongBreak",
                                   !.time_remaining_secs = long_break_duration_secs(c),
                                   !.current_session = 1]
                    ELSE [i EXCEPT !.completed_sessions = @ + 1,
                                   !.current_state = "ShortBreak",
                                   !.time_remaining_secs = short_break_duration_secs(c),
                                   !.current_session = @ + 1]
               [] is_break(i.current_state) ->
                    [i EXCEPT !.current_state = "Working",
                              !.time_remaining_secs = work_duration_secs(c)]
               [] OTHER ->
                    [i EXCEPT !.current_state = "Working",
                              !.time_remaining_secs = work_duration_secs(c),
                              !.current_session = 1,
                              !.completed_sessions = 0]
    IN [j EXCEPT !.last_updated = t]

skip_to_next(i, c, t) ==
    LET j == CASE is_work(i.current_state) ->
                    IF i.current_session >= c.sessions_until_long_break
                    THEN [i EXCEPT !.completed_sessions = @ + 1,
                                   !.current_state = "LongBreak",
                                   !.time_remaining_secs = long_break_duration_secs(c),
                                   !.current_session = 1]
                    ELSE [i EXCEPT !.completed_sessions = @ + 1,
                                   !.current_state = "ShortBreak",
                                   !.time_remaining_secs = short_break_duration_secs(c),
                                   !.current_session = @ + 1]
               [] is_break(i.current_state) ->
                    [i EXCEPT !.current_state = "Working",
                              !.time_remaining_secs = work_duration_secs(c)]
               [] OTHER ->
                    [i EXCEPT !.current_state = "Working",
                              !.time_remaining_secs = work_duration_secs(c),
                              !.current_session = 1]
    IN [j EXCEPT !.last_updated = t]

(* --------------------------- persistence.rs ---------------------------- *)

\* SessionInfo::new as the dual-track struct; the fresh id is 0.
FreshInfo(t) == SessionInfo_new(t, 0) @@ DualTrack

\* The JSON of the derived Serialize: a DateTime<Utc> is written as an RFC
\* 3339 string, an Option<usize> as null or a number, a unit variant of
\* TimerState as its name, a Vec as an array of objects.
json_datetime(t) == [rfc3339 |-> t]

json_option(o) == IF o = <<>> THEN [null |-> TRUE] ELSE [number |-> o[1]]

json_completed_timer(e) == [e EXCEPT !.completed_at = json_datetime(@)]

to_string_pretty(i) ==
    [i EXCEPT !.last_updated = json_datetime(@),
              !.history = [k \in 1..Len(i.history) |->
                              json_completed_timer(i.history[k])],
              !.history_index = json_option(@)]

\* The derived Deserialize, on JSON of the shape above.
parse_option(v) == IF "null" \in DOMAIN v THEN <<>> ELSE <<v.number>>

parse_completed_timer(e) == [e EXCEPT !.completed_at = @.rfc3339]

\* from_str losing the cursor, as a skipped field would.
from_str_live_view(c) ==
    [ok |-> c.current_state \in TimerState,
     info |-> [c EXCEPT !.last_updated = @.rfc3339,
                        !.history = [k \in 1..Len(c.history) |->
                                        parse_completed_timer(c.history[k])],
                        !.history_index = <<>>]]

\* serde_json::from_str: Err when current_state names no variant.
from_str(c) ==
    [ok |-> c.current_state \in TimerState,
     info |-> [c EXCEPT !.last_updated = @.rfc3339,
                        !.history = [k \in 1..Len(c.history) |->
                                        parse_completed_timer(c.history[k])],
                        !.history_index = parse_option(@)]]

\* state.json: absent, unreadable or unparsable, or a serialized SessionInfo
\* (content is read only in the last case).
NoFile == [kind |-> "none", content |-> to_string_pretty(FreshInfo(0))]

Corrupt == [kind |-> "corrupt", content |-> to_string_pretty(FreshInfo(0))]

\* serde_json::to_string_pretty written by fs::write.
Written(i) == [kind |-> "json", content |-> to_string_pretty(i)]

\* Persistence::load answering a missing file with an all-zero value in
\* place of SessionInfo::new().
Persistence_load_zeroed(d, t) ==
    CASE d.kind = "none" ->
            [ok |-> TRUE, info |-> [FreshInfo(t) EXCEPT !.current_session = 0]]
      [] d.kind = "corrupt" -> [ok |-> FALSE, info |-> FreshInfo(t)]
      [] OTHER -> LET parsed == from_str(d.content)
                  IN [ok |-> parsed.ok,
                      info |-> IF parsed.ok THEN parsed.info ELSE FreshInfo(t)]

\* Persistence::load: Ok(SessionInfo::new()) when the file is absent,
\* Err when it cannot be read or parsed, Ok(the parsed value) otherwise.
Persistence_load(d, t) ==
    CASE d.kind = "none" -> [ok |-> TRUE, info |-> FreshInfo(t)]
      [] d.kind = "corrupt" -> [ok |-> FALSE, info |-> FreshInfo(t)]
      [] OTHER -> LET parsed == from_str(d.content)
                  IN [ok |-> parsed.ok,
                      info |-> IF parsed.ok THEN parsed.info ELSE FreshInfo(t)]

\* The outcomes of Persistence::save: Ok; an Err before the file is opened
\* for writing (data_dir, create_dir_all, state_path, to_string_pretty, or
\* the open inside fs::write); an Err inside fs::write after it has opened and
\* truncated the file (std::fs::write is File::create, then write_all).
SaveResults == {"ok", "failed", "truncated"}

\* Persistence::save reporting Ok before the text has reached the file.
Persistence_save_deferred(i, r) ==
    CASE r = "ok" -> disk
      [] r = "failed" -> disk
      [] OTHER -> Corrupt

\* Persistence::save: on success the file holds the serialized value; on a
\* failure (logged by the caller) the file is as it was, or holds the part of
\* the new text that was written, which does not parse.
Persistence_save(i, r) ==
    CASE r = "ok" -> Written(i)
      [] r = "failed" -> disk
      [] OTHER -> Corrupt

(* -------------------------------- app.rs ------------------------------- *)

\* PomodoroApp::new that keeps the mode flag of the snapshot.
PomodoroApp_new_keeping_mode(loaded, c, t) ==
    IF loaded.ok
    THEN LET i == loaded.info
         IN [i EXCEPT
               !.time_remaining_secs =
                   IF @ = 0 THEN work_duration_secs(c) ELSE @,
               !.rest_time_remaining_secs =
                   IF @ = 0 THEN short_break_duration_secs(c) ELSE @]
    ELSE [FreshInfo(t) EXCEPT
               !.time_remaining_secs = work_duration_secs(c),
               !.rest_time_remaining_secs = short_break_duration_secs(c)]

\* PomodoroApp::new, lines 28-50: the SessionInfo the application starts with.
PomodoroApp_new(loaded, c, t) ==
    IF loaded.ok
    THEN LET i == loaded.info
         IN [i EXCEPT
               !.time_remaining_secs =
                   IF @ = 0 THEN work_duration_secs(c) ELSE @,
               !.rest_time_remaining_secs =
                   IF @ = 0 THEN short_break_duration_secs(c) ELSE @,
               !.is_focus_mode =
                   is_work(i.current_state) \/ i.current_state = "Idle"]
    ELSE [FreshInfo(t) EXCEPT
               !.time_remaining_secs = work_duration_secs(c),
               !.rest_time_remaining_secs = short_break_duration_secs(c)]

\* The counter the tick loop decrements in state s.
ActiveCounter(i) ==
    IF is_work(i.current_state) THEN i.time_remaining_secs
    ELSE i.rest_time_remaining_secs

\* The decrement step without the "> 0" tests.
tick_unguarded(i, t) ==
    IF is_running(i.current_state)
    THEN IF is_work(i.current_state)
         THEN [i EXCEPT !.time_remaining_secs = @ - 1, !.last_updated = t]
         ELSE [i EXCEPT !.rest_time_remaining_secs = @ - 1, !.last_updated = t]
    ELSE i

\* The decrement step that always counts the focus track down.
tick_single_track(i, t) ==
    IF is_running(i.current_state)
    THEN IF i.time_remaining_secs > 0
         THEN [i EXCEPT !.time_remaining_secs = @ - 1, !.last_updated = t]
         ELSE i
    ELSE i

\* Tick loop, lines 64-92: the decrement step.
tick(i, t) ==
    IF is_running(i.current_state)
    THEN IF is_work(i.current_state)
         THEN IF i.time_remaining_secs > 0
              THEN [i EXCEPT !.time_remaining_secs = @ - 1, !.last_updated = t]
              ELSE i
         ELSE IF i.rest_time_remaining_secs > 0
              THEN [i EXCEPT !.rest_time_remaining_secs = @ - 1, !.last_updated = t]
              ELSE i
    ELSE i

\* Tick loop, lines 68-89: the value of just_completed for a step from i to j.
just_completed(i, j) ==
    /\ is_running(i.current_state)
    /\ ActiveCounter(i) > 0
    /\ ActiveCounter(j) = 0

\* The notification match with the two break arms exchanged.
notification_crossed(s, c) ==
    IF c.enable_notifications
    THEN CASE s = "Working" -> <<"work_complete">>
           [] s = "ShortBreak" -> <<"long_break_complete">>
           [] s = "LongBreak" -> <<"break_complete">>
           [] OTHER -> <<>>
    ELSE <<>>

\* The notification match without the enable_notifications test.
notification_unconditional(s, c) ==
    CASE s = "Working" -> <<"work_complete">>
      [] s = "ShortBreak" -> <<"break_complete">>
      [] s = "LongBreak" -> <<"long_break_complete">>
      [] OTHER -> <<>>

\* Completion protocol, lines 111-134: the notification dispatched in state s.
notification(s, c) ==
    IF c.enable_notifications
    THEN CASE s = "Working" -> <<"work_complete">>
           [] s = "ShortBreak" -> <<"break_complete">>
           [] s = "LongBreak" -> <<"long_break_complete">>
           [] OTHER -> <<>>
    ELSE <<>>

\* Completion protocol, lines 136-138.
complete(i, t) == [i EXCEPT !.current_state = "Idle", !.last_updated = t]

\* handle_toggle with the two branches of the Idle arm exchanged.
toggle_exchanged(rd_state, rd_focus, i, c, t) ==
    CASE rd_state = "Idle" ->
            IF rd_focus THEN start_short_break(i, c, t) ELSE start_work(i, c, t)
      [] is_running(rd_state) -> pause(i, t)
      [] OTHER -> resume(i, t)

\* handle_toggle, lines 223-244: the Timer call chosen from the state read.
toggle(rd_state, rd_focus, i, c, t) ==
    CASE rd_state = "Idle" ->
            IF rd_focus THEN start_work(i, c, t) ELSE start_short_break(i, c, t)
      [] is_running(rd_state) -> pause(i, t)
      [] OTHER -> resume(i, t)

\* handle_switch_to_focus restarting the focus countdown on every switch.
switch_to_focus_restarting(i, c, t) ==
    IF i.is_focus_mode THEN i
    ELSE [i EXCEPT !.time_remaining_secs = work_duration_secs(c),
                   !.is_focus_mode = TRUE,
                   !.current_state = "Idle",
                   !.last_updated = t]

\* handle_switch_to_focus, lines 322-338.
switch_to_focus(i, c, t) ==
    IF i.is_focus_mode THEN i
    ELSE [i EXCEPT !.time_remaining_secs =
                       IF @ = 0 THEN work_duration_secs(c) ELSE @,
                   !.is_focus_mode = TRUE,
                   !.current_state = "Idle",
                   !.last_updated = t]

\* handle_switch_to_rest without the early return of lines 363-365.
switch_to_rest_unguarded(i, c, t) ==
    [i EXCEPT !.rest_time_remaining_secs =
                  IF @ = 0 THEN short_break_duration_secs(c) ELSE @,
              !.is_focus_mode = FALSE,
              !.current_state = "Idle",
              !.last_updated = t]

\* handle_switch_to_rest, lines 360-376.
switch_to_rest(i, c, t) ==
    IF ~i.is_focus_mode THEN i
    ELSE [i EXCEPT !.rest_time_remaining_secs =
                       IF @ = 0 THEN short_break_duration_secs(c) ELSE @,
                   !.is_focus_mode = FALSE,
                   !.current_state = "Idle",
                   !.last_updated = t]

(* ------------------------------ the Mutex ------------------------------ *)

\* Mutex::lock letting a task in whether or not the lock is free.
lock_mutex_unguarded(who) == lock' = lock \cup {who}

\* Mutex::lock (session_info.lock()): returns once no task holds the lock.
lock_mutex(who) == lock = {} /\ lock' = {who}

\* The guard dropped at the end of a critical section.  Where a whole
\* critical section is one step, the lock is free before and after it.
unlock(who) == lock' = lock \ {who}

(* ------------------------------ bookkeeping ---------------------------- *)

\* A command handler's position: no handler in flight, handle_toggle between
\* its read (lines 218-221) and its Timer call, or a handler between its
\* mutation and its save.
IdleTask == [pc |-> "idle", rd_state |-> "Idle", rd_focus |-> TRUE]

ToggleTask(s, f) == [pc |-> "toggle", rd_state |-> s, rd_focus |-> f]

SaveTask == [pc |-> "save", rd_state |-> "Idle", rd_focus |-> TRUE]

\* The record of the last critical section: its name, for the Timer call of
\* handle_toggle what the handler had read, whether it saved, and for
\* handle_new_timer the label it was given.
Op(name) ==
    [name |-> name, rd_state |-> "Idle", rd_focus |-> TRUE, saved |-> "none",
     label |-> ""]

ToggleOp(s, f) ==
    [name |-> "toggle", rd_state |-> s, rd_focus |-> f, saved |-> "none",
     label |-> ""]

\* The critical section of handle_new_timer, with the label it consumed.
NewTimerOp(label) ==
    [name |-> "new_timer", rd_state |-> "Idle", rd_focus |-> TRUE,
     saved |-> "none", label |-> label]

\* A critical section that calls Persistence::save, with the call's outcome.
SavedOp(name, r) ==
    [name |-> name, rd_state |-> "Idle", rd_focus |-> TRUE,
     saved |-> r, label |-> ""]

\* A countdown is followed while its counter is small or within TickWindow
\* seconds of a configured full duration.
Followed(x) ==
    \/ x <= MaxLoadSecs
    \/ \E d \in {work_duration_secs(config), short_break_duration_secs(config),
                 long_break_duration_secs(config)} :
           d - TickWindow < x /\ x <= d

(* ------------------------ the Timer as a library ----------------------- *)

\* The SessionInfo values a Timer is handed.
SeedInfos ==
    [current_state : TimerState,
     time_remaining_secs : 0..MaxLoadSecs,
     rest_time_remaining_secs : 0..MaxLoadSecs,
     is_focus_mode : BOOLEAN,
     current_session : 1..MaxSessions,
     completed_sessions : {0},
     last_updated : {0},
     current_id : {0},
     current_label : {""},
     history : {<<>>},
     history_index : {<<>>}]

TimerInit ==
    /\ config \in Configs
    /\ info \in SeedInfos
    /\ disk = NoFile
    /\ clock = 0
    /\ tick_pc = "sleep"
    /\ task = IdleTask
    /\ notified = <<>>
    /\ pre = info
    /\ op = Op("init")
    /\ lock = {}

\* One call of a Timer method: a single critical section.
Call(name, j, t) ==
    /\ info' = j
    /\ clock' = t
    /\ pre' = info
    /\ op' = Op(name)
    /\ UNCHANGED <<config, disk, tick_pc, task, notified, lock>>

CallStartWork == \E t \in Now : Call("start_work", start_work(info, config, t), t)

CallStartShortBreak ==
    \E t \in Now : Call("start_short_break", start_short_break(info, config, t), t)

CallStartLongBreak ==
    \E t \in Now : Call("start_long_break", start_long_break(info, config, t), t)

CallPause == \E t \in Now : Call("pause", pause(info, t), t)

CallResume == \E t \in Now : Call("resume", resume(info, t), t)

CallReset == \E t \in Now : Call("reset", reset(info, t), t)

CallSkipToNext ==
    /\ is_work(info.current_state) => info.completed_sessions < MaxCompleted
    /\ \E t \in Now : Call("skip_to_next", skip_to_next(info, config, t), t)

TimerNext ==
    \/ CallStartWork
    \/ CallStartShortBreak
    \/ CallStartLongBreak
    \/ CallPause
    \/ CallResume
    \/ CallReset
    \/ CallSkipToNext

SpecTimer == TimerInit /\ [][TimerNext]_vars

(* ------------------------ the cycle of sessions ------------------------ *)

\* A Timer handed a SessionInfo at the start of a cycle (current_session 1,
\* no session completed) and driven by skip_to_next, pause and resume only.
CycleInit ==
    /\ TimerInit
    /\ info.current_session = 1

CycleNext ==
    \/ CallSkipToNext
    \/ CallPause
    \/ CallResume

SpecCycle == CycleInit /\ [][CycleNext]_vars

\* A Timer handed the SessionInfo of a first start (SessionInfo::new with
\* the configured work duration, app.rs 44-47) under a validated Config,
\* and driven by every Timer method.
SessionInit ==
    /\ config \in Configs
    /\ info = PomodoroApp_new([ok |-> FALSE], config, 0)
    /\ disk = NoFile
    /\ clock = 0
    /\ tick_pc = "sleep"
    /\ task = IdleTask
    /\ notified = <<>>
    /\ pre = info
    /\ op = Op("init")
    /\ lock = {}

SpecSession == SessionInit /\ [][TimerNext]_vars

(* ------------------- state.rs: the history of SessionInfo --------------- *)

\* Uuid::new_v4: an id no timer had before.  Ids are numbered in the order
\* they are generated, so the one after the current id is fresh.
new_v4(i) == i.current_id + 1

CompletedTimer(id, label, duration_secs, session_type, t) ==
    [id |-> id, label |-> label, duration_secs |-> duration_secs,
     session_type |-> session_type, completed_at |-> t]

\* add_to_history dropping the entry just pushed when the history is full.
add_to_history_newest_dropped(i, id, label, duration_secs, session_type, t) ==
    LET pushed == Append(i.history,
                     CompletedTimer(id, label, duration_secs, session_type, t))
    IN [i EXCEPT !.history = IF Len(pushed) > HistoryCap
                             THEN SubSeq(pushed, 1, HistoryCap) ELSE pushed,
                 !.current_id = new_v4(i)]

\* SessionInfo::add_to_history: push, drop the first entry when the length
\* exceeds the cap, then a new current_id.
add_to_history(i, id, label, duration_secs, session_type, t) ==
    LET pushed == Append(i.history,
                     CompletedTimer(id, label, duration_secs, session_type, t))
    IN [i EXCEPT !.history = IF Len(pushed) > HistoryCap
                             THEN Tail(pushed) ELSE pushed,
                 !.current_id = new_v4(i)]

\* navigate_history_prev without the wrap from the first entry.
navigate_history_prev_clamped(i) ==
    IF i.history = <<>> THEN i
    ELSE [i EXCEPT !.history_index =
              IF @ = <<>> THEN <<Len(i.history) - 1>>
              ELSE IF @[1] = 0 THEN <<0>>
              ELSE <<@[1] - 1>>]

\* SessionInfo::navigate_history_prev; Some(k) is <<k>>, None is <<>>.
navigate_history_prev(i) ==
    IF i.history = <<>> THEN i
    ELSE [i EXCEPT !.history_index =
              IF @ = <<>> THEN <<Len(i.history) - 1>>
              ELSE IF @[1] = 0 THEN <<Len(i.history) - 1>>
              ELSE <<@[1] - 1>>]

\* navigate_history_next staying on the last entry.
navigate_history_next_stuck(i) ==
    IF i.history = <<>> THEN i
    ELSE [i EXCEPT !.history_index =
              IF @ = <<>> THEN <<0>>
              ELSE IF @[1] >= Len(i.history) - 1 THEN <<Len(i.history) - 1>>
              ELSE <<@[1] + 1>>]

\* navigate_history_next with > in place of >= in the wrap test.
navigate_history_next_past_end(i) ==
    IF i.history = <<>> THEN i
    ELSE [i EXCEPT !.history_index =
              IF @ = <<>> THEN <<0>>
              ELSE IF @[1] > Len(i.history) - 1 THEN <<0>>
              ELSE <<@[1] + 1>>]

\* SessionInfo::navigate_history_next.
navigate_history_next(i) ==
    IF i.history = <<>> THEN i
    ELSE [i EXCEPT !.history_index =
              IF @ = <<>> THEN <<0>>
              ELSE IF @[1] >= Len(i.history) - 1 THEN <<0>>
              ELSE <<@[1] + 1>>]

\* SessionInfo::exit_history.
exit_history(i) == [i EXCEPT !.history_index = <<>>]

\* The methods called on a fresh SessionInfo, in any order.
HistoryInit ==
    /\ config \in Configs
    /\ info = FreshInfo(MaxClock)
    /\ disk = NoFile
    /\ clock = MaxClock
    /\ tick_pc = "sleep"
    /\ task = IdleTask
    /\ notified = <<>>
    /\ pre = info
    /\ op = Op("init")
    /\ lock = {}

\* add_to_history with the arguments handle_skip passes (app.rs 267-273):
\* the current timer's id, label, counter and state name.
AddToHistory ==
    /\ info.current_id < MaxIds
    /\ \E t \in Now :
         Call("add_to_history",
              add_to_history(info, info.current_id, info.current_label,
                             info.time_remaining_secs,
                             display_name(info.current_state), t), t)

NavigateHistoryPrev ==
    \E t \in Now : Call("navigate_history_prev", navigate_history_prev(info), t)

NavigateHistoryNext ==
    \E t \in Now : Call("navigate_history_next", navigate_history_next(info), t)

ExitHistory == \E t \in Now : Call("exit_history", exit_history(info), t)

HistoryNext ==
    \/ AddToHistory
    \/ NavigateHistoryPrev
    \/ NavigateHistoryNext
    \/ ExitHistory

SpecHistory == HistoryInit /\ [][HistoryNext]_vars

(* --------------------------- the application --------------------------- *)

\* The snapshots found at startup.
InitialDisks ==
    {NoFile, Corrupt} \cup
    {Written(i) : i \in
        [current_state : TimerState,
         time_remaining_secs : 0..MaxLoadSecs,
         rest_time_remaining_secs : 0..MaxLoadSecs,
         is_focus_mode : BOOLEAN,
         current_session : {1},
         completed_sessions : {0},
         last_updated : {0},
         current_id : {0},
         current_label : {""},
         history : {<<>>},
         history_index : {<<>>}]}

Init ==
    /\ config \in {c \in Configs : c.sessions_until_long_break = MaxSessions}
    /\ disk \in InitialDisks
    /\ clock = MaxClock
    /\ info = PomodoroApp_new(Persistence_load(disk, clock), config, clock)
    /\ tick_pc = "sleep"
    /\ task = IdleTask
    /\ notified = <<>>
    /\ pre = info
    /\ op = Op("init")
    /\ lock = {}

\* Tick loop, lines 58-97: wake up and run the decrement step.
Tick ==
    /\ tick_pc = "sleep"
    /\ is_running(info.current_state) => Followed(ActiveCounter(info))
    /\ \E t \in Now :
         /\ info' = tick(info, t)
         /\ clock' = t
    /\ tick_pc' = IF just_completed(info, info') THEN "complete" ELSE "sleep"
    /\ pre' = info
    /\ op' = Op("tick")
    /\ unlock("tick")
    /\ UNCHANGED <<config, disk, task, notified>>

\* Tick loop, lines 99-148: the completion protocol.
Complete ==
    /\ tick_pc = "complete"
    /\ \E t \in Now, r \in SaveResults :
         /\ info' = complete(info, t)
         /\ clock' = t
         /\ disk' = Persistence_save(info', r)
         /\ op' = SavedOp("complete", r)
    /\ notified' = notified \o notification(info.current_state, config)
    /\ tick_pc' = "sleep"
    /\ pre' = info
    /\ unlock("tick")
    /\ UNCHANGED <<config, task>>

\* An autosave loop that saves only while a countdown is running.
Autosave_when_running ==
    /\ is_running(info.current_state)
    /\ \E r \in SaveResults :
         /\ disk' = Persistence_save(info, r)
         /\ op' = SavedOp("autosave", r)
    /\ pre' = info
    /\ unlock("autosave")
    /\ UNCHANGED <<config, info, clock, tick_pc, task, notified>>

\* Autosave loop, lines 155-167.
Autosave ==
    /\ \E r \in SaveResults :
         /\ disk' = Persistence_save(info, r)
         /\ op' = SavedOp("autosave", r)
    /\ pre' = info
    /\ unlock("autosave")
    /\ UNCHANGED <<config, info, clock, tick_pc, task, notified>>

\* handle_toggle, lines 218-221: read the state and the mode.
ToggleRead ==
    /\ task.pc = "idle"
    /\ task' = ToggleTask(info.current_state, info.is_focus_mode)
    /\ pre' = info
    /\ op' = Op("toggle_read")
    /\ unlock("handler")
    /\ UNCHANGED <<config, info, disk, clock, tick_pc, notified>>

\* handle_toggle, lines 223-244: the Timer call.
ToggleCall ==
    /\ task.pc = "toggle"
    /\ \E t \in Now :
         /\ info' = toggle(task.rd_state, task.rd_focus, info, config, t)
         /\ clock' = t
    /\ task' = SaveTask
    /\ pre' = info
    /\ op' = ToggleOp(task.rd_state, task.rd_focus)
    /\ unlock("handler")
    /\ UNCHANGED <<config, disk, tick_pc, notified>>

\* The save that ends a command handler (lines 246-250, 304-308, 342-346,
\* 380-384).
HandlerSave ==
    /\ task.pc = "save"
    /\ \E r \in SaveResults :
         /\ disk' = Persistence_save(info, r)
         /\ op' = SavedOp("save", r)
    /\ task' = IdleTask
    /\ pre' = info
    /\ unlock("handler")
    /\ UNCHANGED <<config, info, clock, tick_pc, notified>>

\* handle_reset, line 301: Timer::reset.
Reset ==
    /\ task.pc = "idle"
    /\ \E t \in Now :
         /\ info' = reset(info, t)
         /\ clock' = t
    /\ task' = SaveTask
    /\ pre' = info
    /\ op' = Op("reset")
    /\ unlock("handler")
    /\ UNCHANGED <<config, disk, tick_pc, notified>>

\* handle_switch_to_focus, lines 320-338; the early return skips the save.
SwitchToFocus ==
    /\ task.pc = "idle"
    /\ \E t \in Now :
         /\ info' = switch_to_focus(info, config, t)
         /\ clock' = t
    /\ task' = IF info.is_focus_mode THEN IdleTask ELSE SaveTask
    /\ pre' = info
    /\ op' = Op("switch_to_focus")
    /\ unlock("handler")
    /\ UNCHANGED <<config, disk, tick_pc, notified>>

\* handle_switch_to_rest, lines 358-376; the early return skips the save.
SwitchToRest ==
    /\ task.pc = "idle"
    /\ \E t \in Now :
         /\ info' = switch_to_rest(info, config, t)
         /\ clock' = t
    /\ task' = IF ~info.is_focus_mode THEN IdleTask ELSE SaveTask
    /\ pre' = info
    /\ op' = Op("switch_to_rest")
    /\ unlock("handler")
    /\ UNCHANGED <<config, disk, tick_pc, notified>>

Next ==
    \/ Tick
    \/ Complete
    \/ Autosave
    \/ ToggleRead
    \/ ToggleCall
    \/ HandlerSave
    \/ Reset
    \/ SwitchToFocus
    \/ SwitchToRest

Spec == Init /\ [][Next]_vars

TypeOK ==
    /\ info.current_state \in TimerState
    /\ info.time_remaining_secs \in Nat
    /\ info.rest_time_remaining_secs \in Nat
    /\ tick_pc \in {"sleep", "complete"}
    /\ task.pc \in {"idle", "toggle", "save"}

(* ----------------- the commands on the session's timers --------------- *)

\* The contents of the label input buffer (PomodoroApp::label_input).
Labels == {"", "a"}

\* handle_skip archiving in every state.
skip_archiving_always(i, t) ==
    navigate_history_prev(
        [add_to_history(i, i.current_id, i.current_label,
                        i.time_remaining_secs,
                        display_name(i.current_state), t)
            EXCEPT !.current_state = "Idle", !.time_remaining_secs = 0])

\* handle_skip, lines 264-281: in a running state archive the timer and stop
\* it; then, in every state, move the history cursor back.
skip(i, t) ==
    navigate_history_prev(
        IF is_running(i.current_state)
        THEN [add_to_history(i, i.current_id, i.current_label,
                             i.time_remaining_secs,
                             display_name(i.current_state), t)
                 EXCEPT !.current_state = "Idle", !.time_remaining_secs = 0]
        ELSE i)

\* handle_new_timer without the exit_history call.
new_timer_browsing(i, label, t) ==
    [i EXCEPT !.current_state = "Idle",
              !.time_remaining_secs = 0,
              !.current_id = new_v4(i),
              !.current_label = label,
              !.last_updated = t]

\* handle_new_timer, lines 189-195.
new_timer(i, label, t) ==
    [exit_history(i) EXCEPT !.current_state = "Idle",
                            !.time_remaining_secs = 0,
                            !.current_id = new_v4(i),
                            !.current_label = label,
                            !.last_updated = t]

\* handle_skip, lines 258-293; the stamp of an archived timer is Utc::now().
Skip ==
    /\ task.pc = "idle"
    /\ is_running(info.current_state) => info.current_id < MaxTimers
    /\ \E t \in Now :
         /\ info' = skip(info, t)
         /\ clock' = t
    /\ task' = SaveTask
    /\ pre' = info
    /\ op' = Op("skip")
    /\ unlock("handler")
    /\ UNCHANGED <<config, disk, tick_pc, notified>>

\* handle_new_timer, lines 180-211.
NewTimer ==
    /\ task.pc = "idle"
    /\ info.current_id < MaxTimers
    /\ \E t \in Now, label \in Labels :
         /\ info' = new_timer(info, label, t)
         /\ clock' = t
         /\ op' = NewTimerOp(label)
    /\ task' = SaveTask
    /\ pre' = info
    /\ unlock("handler")
    /\ UNCHANGED <<config, disk, tick_pc, notified>>

\* handle_done_label, lines 400-416: the label is written under the lock and
\* the handler ends; it calls no save.
DoneLabel ==
    /\ task.pc = "idle"
    /\ \E label \in Labels :
         info' = [info EXCEPT !.current_label = label]
    /\ pre' = info
    /\ op' = Op("done_label")
    /\ unlock("handler")
    /\ UNCHANGED <<config, disk, clock, tick_pc, task, notified>>

\* The application started without a snapshot and driven by its commands
\* alone, the tick loop and the autosave loop not yet scheduled; no countdown
\* completes, so the notification setting is left at one value.
CommandsInit ==
    /\ Init
    /\ disk = NoFile
    /\ config.enable_notifications

CommandsNext ==
    \/ ToggleRead
    \/ ToggleCall
    \/ HandlerSave
    \/ SwitchToFocus
    \/ SwitchToRest
    \/ Skip
    \/ NewTimer

SpecCommands == CommandsInit /\ [][CommandsNext]_vars

\* The commands on the one timer the application starts with, its label
\* being edited in between.
LabelNext ==
    \/ ToggleRead
    \/ ToggleCall
    \/ HandlerSave
    \/ Reset
    \/ SwitchToFocus
    \/ SwitchToRest
    \/ DoneLabel

SpecLabel == CommandsInit /\ [][LabelNext]_vars

(* ------------------- the tasks contending for the lock ----------------- *)

\* The three kinds of task that lock SessionInfo: the tick loop, the
\* autosave loop and a command handler (handle_toggle).
Tasks == {"tick", "autosave", "handler"}

\* Nothing but the lock changes while a task acquires it.
Acquire(who) ==
    /\ who \notin lock
    /\ lock_mutex(who)
    /\ UNCHANGED <<config, info, disk, clock, tick_pc, task, notified, pre, op>>

\* Tick loop, lines 65 and 103: session_info_for_tick.lock().
TickAcquire ==
    /\ \/ tick_pc = "complete"
       \/ is_running(info.current_state) => Followed(ActiveCounter(info))
    /\ Acquire("tick")

\* Tick loop: the section of lines 65-92 or that of lines 103-144.
TickHeld == "tick" \in lock /\ (Tick \/ Complete)

\* Autosave loop, line 163: session_info_clone.lock().
AutosaveAcquire == Acquire("autosave")

\* Autosave loop, lines 163-166.
AutosaveHeld == "autosave" \in lock /\ Autosave

\* handle_toggle, lines 219 and 247, and the Timer method it calls.
HandlerAcquire == Acquire("handler")

\* handle_toggle: the read, the Timer call or the save.
HandlerHeld == "handler" \in lock /\ (ToggleRead \/ ToggleCall \/ HandlerSave)

LockInit ==
    /\ Init
    /\ disk \in {NoFile, Written(FreshInfo(0)),
                 Written([FreshInfo(0) EXCEPT !.current_state = "ShortBreak",
                                              !.rest_time_remaining_secs = 1])}

LockNext ==
    \/ TickAcquire
    \/ TickHeld
    \/ AutosaveAcquire
    \/ AutosaveHeld
    \/ HandlerAcquire
    \/ HandlerHeld

SpecLock == LockInit /\ [][LockNext]_vars

(* ----------------------- the application, scheduled -------------------- *)

\* An iteration of the autosave loop whose save succeeds.
AutosaveOk == Autosave /\ op'.saved = "ok"

FairInit == LockInit

\* Both loops sleep for a bounded time and then run (lines 60-62, 158-160):
\* the tick loop's two sections and the autosave are taken again and again.
\* Saves are taken to succeed again and again.
SpecFair ==
    /\ FairInit
    /\ [][Next]_vars
    /\ WF_vars(Tick)
    /\ WF_vars(Complete)
    /\ WF_vars(AutosaveOk)

(* ------------------------------ properties ----------------------------- *)

\* The fields a countdown step or a state change must leave alone.
SameIdentity(i, j) ==
    /\ i.current_session = j.current_session
    /\ i.completed_sessions = j.completed_sessions
    /\ i.current_id = j.current_id
    /\ i.current_label = j.current_label
    /\ i.history = j.history
    /\ i.history_index = j.history_index

\* C1: a tick taken in a running state with a positive active counter lowers
\* that counter by exactly 1, and no tick takes a counter below 0: a counter
\* that is 0 before the tick is 0 after it.
C1_TickDecrementsByOne ==
    op.name = "tick" =>
        /\ (is_running(pre.current_state) /\ ActiveCounter(pre) > 0)
               => ActiveCounter(info) = ActiveCounter(pre) - 1
        /\ info.time_remaining_secs >= 0
        /\ info.rest_time_remaining_secs >= 0
        /\ pre.time_remaining_secs = 0 => info.time_remaining_secs = 0
        /\ pre.rest_time_remaining_secs = 0 => info.rest_time_remaining_secs = 0

C1_Witness ==
    /\ op.name = "tick"
    /\ is_running(pre.current_state)
    /\ ActiveCounter(pre) > 0
    /\ ActiveCounter(info) = ActiveCounter(pre) - 1

\* C2: a tick changes at most one counter, time_remaining_secs in a running
\* work state and rest_time_remaining_secs in a running break state; the other
\* counter, the state, the mode, the session counters, the history and the
\* history cursor keep their values, and a tick in an Idle or paused state
\* changes no field.
C2_TickFrame ==
    op.name = "tick" =>
        /\ info.current_state = pre.current_state
        /\ info.is_focus_mode = pre.is_focus_mode
        /\ info.current_session = pre.current_session
        /\ info.completed_sessions = pre.completed_sessions
        /\ info.history = pre.history
        /\ info.history_index = pre.history_index
        /\ (is_running(pre.current_state) /\ is_work(pre.current_state))
               => info.rest_time_remaining_secs = pre.rest_time_remaining_secs
        /\ (is_running(pre.current_state) /\ ~is_work(pre.current_state))
               => info.time_remaining_secs = pre.time_remaining_secs
        /\ ~is_running(pre.current_state) => info = pre

C2_Witness ==
    /\ op.name = "tick"
    /\ pre.current_state = "ShortBreak"
    /\ info.rest_time_remaining_secs = pre.rest_time_remaining_secs - 1
    /\ info.time_remaining_secs = pre.time_remaining_secs
    /\ info.time_remaining_secs > 0

\* C3: a call of pause() or resume() leaves both counters as they were; only
\* current_state and last_updated may differ, so the same holds of every
\* sequence of such calls.
C3_PauseResumeKeepCounters ==
    op.name \in {"pause", "resume"} =>
        /\ info.time_remaining_secs = pre.time_remaining_secs
        /\ info.rest_time_remaining_secs = pre.rest_time_remaining_secs
        /\ info.is_focus_mode = pre.is_focus_mode
        /\ SameIdentity(info, pre)

C3_Witness ==
    /\ op.name = "pause"
    /\ pre.current_state = "Working"
    /\ info.current_state = "WorkPaused"
    /\ info.time_remaining_secs > 0

\* C4: pause() is idempotent: a pause() that directly follows a pause()
\* changes no field of SessionInfo.
C4_PauseIdempotent ==
    [][(op.name = "pause" /\ op'.name = "pause") => info' = info]_vars

C4_Witness ==
    /\ op.name = "pause"
    /\ is_paused(info.current_state)
    /\ info.last_updated > 0
    /\ pre = info

\* C5: resume() in a state that is not paused and pause() in Idle change no
\* field of SessionInfo.
C5_InvalidTransitionsAbsorbed ==
    /\ (op.name = "resume" /\ ~is_paused(pre.current_state)) => info = pre
    /\ (op.name = "pause" /\ pre.current_state = "Idle") => info = pre

C5_Witness ==
    /\ op.name = "resume"
    /\ pre.current_state = "Idle"
    /\ clock > pre.last_updated
    /\ info = pre

\* C6: pause and resume are mutually inverse on TimerState and keep the track:
\* resume undoes a pause of a running state, pause undoes a resume of a paused
\* state, and neither turns a work state into a break state or a short break
\* into a long break.
C6_PauseResumeInverse ==
    /\ (op.name = "pause" /\ is_running(pre.current_state))
           => /\ is_paused(info.current_state)
              /\ TimerState_resume(info.current_state) = pre.current_state
    /\ (op.name = "resume" /\ is_paused(pre.current_state))
           => /\ is_running(info.current_state)
              /\ TimerState_pause(info.current_state) = pre.current_state
    /\ op.name \in {"pause", "resume"}
           => /\ is_work(info.current_state) = is_work(pre.current_state)
              /\ (info.current_state \in {"ShortBreak", "BreakPaused"})
                     = (pre.current_state \in {"ShortBreak", "BreakPaused"})
              /\ (info.current_state \in {"LongBreak", "LongBreakPaused"})
                     = (pre.current_state \in {"LongBreak", "LongBreakPaused"})

C6_Witness ==
    /\ op.name = "pause"
    /\ pre.current_state = "ShortBreak"
    /\ info.current_state = "BreakPaused"

\* The state the toggle command is to produce from state s in mode f.
ToggleTarget(s, f) ==
    CASE s = "Idle" -> IF f THEN "Working" ELSE "ShortBreak"
      [] s = "Working" -> "WorkPaused"
      [] s = "ShortBreak" -> "BreakPaused"
      [] s = "LongBreak" -> "LongBreakPaused"
      [] s = "WorkPaused" -> "Working"
      [] s = "BreakPaused" -> "ShortBreak"
      [] s = "LongBreakPaused" -> "LongBreak"

\* C7: a toggle whose Timer call meets the state and mode it read (nothing
\* ran in between) starts work from Idle in focus mode, a short break from
\* Idle in rest mode, pauses a running state and resumes a paused one; it
\* never yields Idle.
C7_ToggleMapping ==
    (/\ op.name = "toggle"
     /\ op.rd_state = pre.current_state
     /\ op.rd_focus = pre.is_focus_mode)
        => /\ info.current_state = ToggleTarget(pre.current_state, pre.is_focus_mode)
           /\ info.current_state # "Idle"
           /\ pre.current_state = "Idle" => info.current_state # "LongBreak"

C7_Witness ==
    /\ op.name = "toggle"
    /\ op.rd_state = "Idle"
    /\ ~op.rd_focus
    /\ pre.current_state = "Idle"
    /\ ~pre.is_focus_mode
    /\ info.current_state = "ShortBreak"

\* C8: startWork() sets the state to Working and the mode to focus, and
\* initialises time_remaining_secs from the work duration only when it is 0:
\* a nonzero focus counter keeps its value.
C8_StartWorkContinues ==
    (op.name = "toggle" /\ op.rd_state = "Idle" /\ op.rd_focus) =>
        /\ info.current_state = "Working"
        /\ info.is_focus_mode
        /\ pre.time_remaining_secs # 0
               => info.time_remaining_secs = pre.time_remaining_secs
        /\ pre.time_remaining_secs = 0
               => info.time_remaining_secs = work_duration_secs(config)

\* C9: startShortBreak() sets the state to ShortBreak and the mode to rest,
\* initialises rest_time_remaining_secs from the short-break duration when it
\* is 0, keeps it otherwise, and does not modify time_remaining_secs.
C9_StartShortBreakRestTrack ==
    (op.name = "toggle" /\ op.rd_state = "Idle" /\ ~op.rd_focus) =>
        /\ info.current_state = "ShortBreak"
        /\ ~info.is_focus_mode
        /\ pre.rest_time_remaining_secs # 0
               => info.rest_time_remaining_secs = pre.rest_time_remaining_secs
        /\ pre.rest_time_remaining_secs = 0
               => info.rest_time_remaining_secs = short_break_duration_secs(config)
        /\ info.time_remaining_secs = pre.time_remaining_secs

\* C10: reset() forces Idle, keeps the mode and sets the counter of the active
\* track (the focus counter in a work state or Idle, the rest counter
\* otherwise) to its full configured duration, leaving the other counter
\* alone; the counter it resets is never 0 afterwards.
C10_ResetRestoresActiveTrack ==
    op.name = "reset" =>
        /\ info.current_state = "Idle"
        /\ info.is_focus_mode = pre.is_focus_mode
        /\ (is_work(pre.current_state) \/ pre.current_state = "Idle")
               => /\ info.time_remaining_secs = work_duration_secs(config)
                  /\ info.time_remaining_secs # 0
                  /\ info.rest_time_remaining_secs = pre.rest_time_remaining_secs
        /\ is_break(pre.current_state)
               => /\ info.rest_time_remaining_secs
                         \in {short_break_duration_secs(config),
                              long_break_duration_secs(config)}
                  /\ info.rest_time_remaining_secs # 0
                  /\ info.time_remaining_secs = pre.time_remaining_secs


\* C11: skip_to_next() in Working or WorkPaused with current_session >=
\* sessions_until_long_break yields LongBreak, current_session 1,
\* completed_sessions one higher, and time_remaining_secs equal to the
\* configured long-break duration.
C11_SkipToLongBreak ==
    (/\ op.name = "skip_to_next"
     /\ is_work(pre.current_state)
     /\ pre.current_session >= config.sessions_until_long_break)
        => /\ info.current_state = "LongBreak"
           /\ info.current_session = 1
           /\ info.completed_sessions = pre.completed_sessions + 1
           /\ info.time_remaining_secs = long_break_duration_secs(config)

C11_Witness ==
    /\ op.name = "skip_to_next"
    /\ pre.current_state = "WorkPaused"
    /\ pre.current_session = config.sessions_until_long_break
    /\ pre.completed_sessions > 0
    /\ info.current_state = "LongBreak"

\* C12: skip_to_next() in Working or WorkPaused with current_session <
\* sessions_until_long_break yields ShortBreak, current_session and
\* completed_sessions one higher and time_remaining_secs equal to the
\* short-break duration; counting from the start of a cycle, a work skip
\* enters the long break exactly when the number of work skips made is a
\* multiple of sessions_until_long_break.
C12_SkipToShortBreak ==
    /\ (/\ op.name = "skip_to_next"
        /\ is_work(pre.current_state)
        /\ pre.current_session < config.sessions_until_long_break)
           => /\ info.current_state = "ShortBreak"
              /\ info.current_session = pre.current_session + 1
              /\ info.completed_sessions = pre.completed_sessions + 1
              /\ info.time_remaining_secs = short_break_duration_secs(config)
    /\ info.current_session
           = (info.completed_sessions % config.sessions_until_long_break) + 1
    /\ (op.name = "skip_to_next" /\ is_work(pre.current_state))
           => (info.current_state = "LongBreak"
                  <=> info.completed_sessions % config.sessions_until_long_break = 0)

C12_Witness ==
    /\ op.name = "skip_to_next"
    /\ pre.current_state = "Working"
    /\ config.sessions_until_long_break = 2
    /\ info.completed_sessions = 3
    /\ info.current_state = "ShortBreak"
    /\ info.current_session = 2

\* C13: skip_to_next() in a state that is not a work state yields Working with
\* time_remaining_secs equal to the full work duration and completed_sessions
\* unchanged; from a break state current_session is unchanged, from Idle it
\* is 1.
C13_SkipToWork ==
    (op.name = "skip_to_next" /\ ~is_work(pre.current_state))
        => /\ info.current_state = "Working"
           /\ info.time_remaining_secs = work_duration_secs(config)
           /\ info.completed_sessions = pre.completed_sessions
           /\ is_break(pre.current_state)
                  => info.current_session = pre.current_session
           /\ pre.current_state = "Idle" => info.current_session = 1

C13_Witness ==
    /\ op.name = "skip_to_next"
    /\ pre.current_state = "LongBreakPaused"
    /\ pre.current_session = 2
    /\ info.current_state = "Working"
    /\ info.current_session = 2


\* The notification kind that belongs to the completion of running state s.
CompletionKind(s) ==
    CASE s = "Working" -> "work_complete"
      [] s = "ShortBreak" -> "break_complete"
      [] s = "LongBreak" -> "long_break_complete"

\* C14: a tick in a running state whose active counter is 1 takes the counter
\* to 0 and hands over to the completion protocol; the protocol, meeting that
\* running state, runs once, leaves Idle and, with notifications enabled,
\* dispatches exactly one notification of the kind of that state; no other
\* tick starts a completion and nothing but the protocol notifies.
C14_CompletionOnce ==
    [][/\ (op'.name = "tick" /\ is_running(info.current_state)
              /\ ActiveCounter(info) = 1)
             => /\ ActiveCounter(info') = 0
                /\ info'.current_state = info.current_state
                /\ tick_pc' = "complete"
       /\ (op'.name = "tick" /\ ~(is_running(info.current_state)
              /\ ActiveCounter(info) = 1))
             => tick_pc' = "sleep"
       /\ (op'.name = "complete" /\ is_running(info.current_state)
              /\ ActiveCounter(info) = 0)
             => /\ info'.current_state = "Idle"
                /\ tick_pc' = "sleep"
                /\ notified' = notified \o
                       (IF config.enable_notifications
                        THEN <<CompletionKind(info.current_state)>> ELSE <<>>)
       /\ op'.name # "complete" => notified' = notified
       /\ op'.name = "complete" => tick_pc = "complete"
      ]_vars

C14_Witness ==
    /\ op.name = "complete"
    /\ pre.current_state = "LongBreak"
    /\ pre.rest_time_remaining_secs = 0
    /\ config.enable_notifications
    /\ info.current_state = "Idle"
    /\ notified = <<"long_break_complete">>

\* C15: with enable_notifications false no notification is ever dispatched,
\* and the completion protocol still leaves Idle and calls the save, so that
\* when the save succeeds the snapshot holds the Idle state.
C15_NotificationsDisabled ==
    ~config.enable_notifications =>
        /\ notified = <<>>
        /\ op.name = "complete"
               => /\ info.current_state = "Idle"
                  /\ op.saved # "none"
                  /\ op.saved = "ok" => disk = Written(info)

C15_Witness ==
    /\ ~config.enable_notifications
    /\ op.name = "complete"
    /\ pre.current_state = "Working"
    /\ pre.time_remaining_secs = 0
    /\ info.current_state = "Idle"
    /\ op.saved = "ok"
    /\ disk = Written(info)
    /\ notified = <<>>


\* C16: switchToRest in focus mode with a rest counter of 0 gives rest mode,
\* a rest counter of the configured short break in seconds and Idle;
\* switchToRest in rest mode and switchToFocus in focus mode change no field
\* of SessionInfo and start no save, so a second switch of the same kind
\* changes nothing.
C16_SwitchToRest ==
    /\ (op.name = "switch_to_rest" /\ pre.is_focus_mode
            /\ pre.rest_time_remaining_secs = 0)
           => /\ ~info.is_focus_mode
              /\ info.rest_time_remaining_secs =
                     config.short_break_duration * SecsPerMin
              /\ info.current_state = "Idle"
    /\ (op.name = "switch_to_rest" /\ ~pre.is_focus_mode)
           => info = pre /\ task = IdleTask
    /\ (op.name = "switch_to_focus" /\ pre.is_focus_mode)
           => info = pre /\ task = IdleTask
    /\ op.name = "switch_to_rest"
           => \A t \in Now : switch_to_rest(info, config, t) = info
    /\ op.name = "switch_to_focus"
           => \A t \in Now : switch_to_focus(info, config, t) = info

C16_Witness ==
    /\ op.name = "switch_to_rest"
    /\ pre.is_focus_mode
    /\ pre.rest_time_remaining_secs = 0
    /\ pre.current_state = "Working"
    /\ ~info.is_focus_mode
    /\ info.rest_time_remaining_secs = 2 * SecsPerMin
    /\ info.current_state = "Idle"

\* C17: a mode switch that takes effect leaves Idle whatever the state
\* before, running or paused, and every counter that was nonzero before the
\* switch has the same value after it.
C17_SwitchKeepsTracks ==
    (\/ op.name = "switch_to_focus" /\ ~pre.is_focus_mode
     \/ op.name = "switch_to_rest" /\ pre.is_focus_mode)
        => /\ info.current_state = "Idle"
           /\ info.is_focus_mode = ~pre.is_focus_mode
           /\ pre.time_remaining_secs # 0
                  => info.time_remaining_secs = pre.time_remaining_secs
           /\ pre.rest_time_remaining_secs # 0
                  => info.rest_time_remaining_secs = pre.rest_time_remaining_secs

C17_Witness ==
    /\ op.name = "switch_to_focus"
    /\ ~pre.is_focus_mode
    /\ pre.current_state = "BreakPaused"
    /\ pre.time_remaining_secs # 0
    /\ pre.rest_time_remaining_secs # 0
    /\ info.current_state = "Idle"
    /\ info.is_focus_mode
    /\ info.time_remaining_secs = pre.time_remaining_secs
    /\ info.rest_time_remaining_secs = pre.rest_time_remaining_secs


\* The ids of the entries of history h.
HistoryIds(h) == {h[k].id : k \in 1..Len(h)}

\* C18: the history never holds more than 50 entries; an addToHistory on a
\* history of 50 entries keeps the length at 50, removes exactly the oldest
\* entry and keeps the others in insertion order with the new entry last; on
\* a shorter history it appends.
C18_HistoryBounded ==
    /\ Len(info.history) <= HistoryCap
    /\ (op.name = "add_to_history" /\ Len(pre.history) = HistoryCap)
           => /\ Len(info.history) = HistoryCap
              /\ \A k \in 1..(HistoryCap - 1) :
                     info.history[k] = pre.history[k + 1]
              /\ info.history[HistoryCap].id = pre.current_id
              /\ pre.history[1].id \notin HistoryIds(info.history)
    /\ (op.name = "add_to_history" /\ Len(pre.history) < HistoryCap)
           => /\ Len(info.history) = Len(pre.history) + 1
              /\ SubSeq(info.history, 1, Len(pre.history)) = pre.history
              /\ info.history[Len(info.history)].id = pre.current_id

\* The 51st append to an empty history: the first entry is gone.
C18_Witness ==
    /\ op.name = "add_to_history"
    /\ Len(pre.history) = HistoryCap
    /\ pre.history[1].id = 0
    /\ Len(info.history) = HistoryCap
    /\ info.history[1].id = 1
    /\ info.history[HistoryCap].id = HistoryCap
    /\ 0 \notin HistoryIds(info.history)

\* C19: history_index is None or Some(i) with i < history.len().
C19_IndexInRange ==
    \/ info.history_index = <<>>
    \/ /\ Len(info.history_index) = 1
       /\ info.history_index[1] \in 0..(Len(info.history) - 1)

\* The cursor on the last entry of a full history when an entry is evicted.
C19_Witness ==
    /\ op.name = "add_to_history"
    /\ Len(pre.history) = HistoryCap
    /\ pre.history_index = <<HistoryCap - 1>>
    /\ info.history_index = <<HistoryCap - 1>>
    /\ Len(info.history) = HistoryCap

\* C20: navigateHistoryPrev on a history of n > 0 entries moves the cursor
\* circularly backwards: from None or Some(0) to Some(n-1), from Some(i) with
\* i > 0 to Some(i-1), and changes nothing else.
C20_NavigatePrev ==
    (op.name = "navigate_history_prev" /\ pre.history # <<>>)
        => /\ pre.history_index \in {<<>>, <<0>>}
                  => info.history_index = <<Len(pre.history) - 1>>
           /\ (pre.history_index # <<>> /\ pre.history_index[1] > 0)
                  => info.history_index = <<pre.history_index[1] - 1>>
           /\ info = [pre EXCEPT !.history_index = info.history_index]

\* The fourth call of the scenario: 3 entries, from Some(0) to Some(2).
C20_Witness ==
    /\ op.name = "navigate_history_prev"
    /\ Len(pre.history) = 3
    /\ pre.history_index = <<0>>
    /\ info.history_index = <<2>>


\* C21: navigateHistoryNext on a history of n > 0 entries moves the cursor
\* circularly forwards: from None or Some(n-1) to Some(0), from Some(i) with
\* i < n-1 to Some(i+1), and changes nothing else; on an empty history
\* navigateHistoryNext and navigateHistoryPrev change nothing.
C21_NavigateNext ==
    /\ (op.name = "navigate_history_next" /\ pre.history # <<>>)
           => /\ pre.history_index \in {<<>>, <<Len(pre.history) - 1>>}
                     => info.history_index = <<0>>
              /\ (pre.history_index # <<>>
                     /\ pre.history_index[1] < Len(pre.history) - 1)
                     => info.history_index = <<pre.history_index[1] + 1>>
              /\ info = [pre EXCEPT !.history_index = info.history_index]
    /\ (op.name \in {"navigate_history_next", "navigate_history_prev"}
            /\ pre.history = <<>>)
           => info = pre

\* The wrap from the last of 3 entries to the first.
C21_Witness ==
    /\ op.name = "navigate_history_next"
    /\ Len(pre.history) = 3
    /\ pre.history_index = <<2>>
    /\ info.history_index = <<0>>


\* The history of j is that of i with one entry for i's current timer added
\* last, the oldest entry gone if the bound was exceeded, and j's current_id
\* is not the archived one.
Archived(i, j) ==
    LET n == Len(j.history)
        kept == IF Len(i.history) < HistoryCap
                THEN i.history ELSE Tail(i.history)
    IN /\ n = Len(kept) + 1
       /\ SubSeq(j.history, 1, n - 1) = kept
       /\ j.history[n].id = i.current_id
       /\ j.history[n].label = i.current_label
       /\ j.current_id # i.current_id

\* C22 as stated: the skip command, in any state, appends exactly one
\* CompletedTimer with the pre-skip current_id and current_label, and
\* afterwards current_id differs from the archived id.
C22_SkipArchivesInAnyState ==
    op.name = "skip" => Archived(pre, info)

\* C22 amended: the skip command archives in a running state; in any other
\* state it leaves the history and current_id as they were.
C22_SkipArchivesRunning ==
    op.name = "skip" =>
        IF is_running(pre.current_state)
        THEN Archived(pre, info)
        ELSE info.history = pre.history /\ info.current_id = pre.current_id

C22_Witness ==
    /\ op.name = "skip"
    /\ pre.current_state = "ShortBreak"
    /\ pre.current_label = "a"
    /\ Len(pre.history) = 1
    /\ Len(info.history) = 2
    /\ info.history[2].id = pre.current_id
    /\ info.history[2].label = "a"
    /\ info.current_id # pre.current_id

\* C23: after a skip that archives a session the cursor is on the entry just
\* archived, Some(history.len() - 1), whatever it was before the skip.
C23_SkipLandsOnArchived ==
    (op.name = "skip" /\ is_running(pre.current_state))
        => info.history_index = <<Len(info.history) - 1>>

\* C24: the skip command applies the cycle advance: from Working or
\* WorkPaused to ShortBreak or LongBreak, by the test current_session >=
\* sessions_until_long_break, with completed_sessions incremented; from a
\* break state or Idle to Working.
C24_SkipAdvancesCycle ==
    op.name = "skip" =>
        IF is_work(pre.current_state)
        THEN /\ info.current_state =
                    (IF pre.current_session >= config.sessions_until_long_break
                     THEN "LongBreak" ELSE "ShortBreak")
             /\ info.completed_sessions = pre.completed_sessions + 1
        ELSE info.current_state = "Working"

\* C25: the newTimer command, from any state and any cursor, leaves Idle, the
\* live view, the supplied label as current_label and a current_id that is
\* neither the previous one nor the id of a history entry; the history is
\* unchanged.
C25_NewTimer ==
    op.name = "new_timer" =>
        /\ info.current_state = "Idle"
        /\ info.history_index = <<>>
        /\ info.current_label = op.label
        /\ info.current_id # pre.current_id
        /\ info.current_id \notin HistoryIds(info.history)
        /\ info.history = pre.history

C25_Witness ==
    /\ op.name = "new_timer"
    /\ pre.current_state = "BreakPaused"
    /\ pre.history_index = <<0>>
    /\ Len(pre.history) = 2
    /\ pre.current_label = ""
    /\ op.label = "a"
    /\ info.current_label = "a"
    /\ info.current_state = "Idle"
    /\ info.history_index = <<>>
    /\ info.history = pre.history


C27_LoadNeverFails ==
    (op.name = "init" /\ disk.kind \in {"none", "corrupt"})
        => /\ info.current_state = "Idle"
           /\ info.current_session = 1
           /\ info.completed_sessions = 0
           /\ info.history = <<>>
           /\ info.history_index = <<>>
           /\ tick_pc = "sleep"
           /\ task = IdleTask
           /\ ENABLED ToggleRead

C27_Witness ==
    /\ op.name = "init"
    /\ disk = Corrupt
    /\ info.current_state = "Idle"
    /\ info.current_session = 1
    /\ info.time_remaining_secs = work_duration_secs(config)


\* C28: a save that fails leaves the in-memory SessionInfo as the mutation
\* produced it (the handler saves and the autosave do not touch it, the
\* completion protocol has made it Idle) and leaves the on-disk snapshot with
\* its previous content; the next successful save makes the snapshot the
\* in-memory state again.
C28_FailedSaveKeepsSnapshot ==
    [][/\ op'.saved \in {"failed", "truncated"}
             => /\ disk' = disk
                /\ op'.name \in {"save", "autosave"} => info' = info
                /\ op'.name = "complete"
                       => info' = [info EXCEPT
                                      !.current_state = "Idle",
                                      !.last_updated = info'.last_updated]
       /\ op'.saved = "ok"
             => /\ disk' = Written(info')
                /\ Persistence_load(disk', clock').info = info'
      ]_vars


\* C29: the completion protocol makes the state Idle and saves in one
\* critical section: when its save succeeds, no state that another task can
\* observe has the Idle state of the completion in memory and the running
\* state it left in the snapshot; the snapshot read back is the in-memory
\* state.
C29_CompletionSavedInSection ==
    [][(op'.name = "complete" /\ op'.saved = "ok")
          => /\ info'.current_state = "Idle"
             /\ disk'.kind = "json"
             /\ ~is_running(from_str(disk'.content).info.current_state)
             /\ from_str(disk'.content).info = info'
      ]_vars

C29_Witness ==
    /\ op.name = "complete"
    /\ op.saved = "ok"
    /\ pre.current_state = "ShortBreak"
    /\ info.current_state = "Idle"
    /\ disk.kind = "json"
    /\ from_str(disk.content).info.current_state = "Idle"


\* C30: at every instant at most one of the tick loop, the autosave loop and
\* the command handlers is inside a critical section on SessionInfo, and
\* every step that reads or writes SessionInfo (a tick, a completion, a save,
\* the read or the Timer call of toggle) is taken by a task holding the lock.
C30_MutualExclusion ==
    [][/\ Cardinality(lock) <= 1
       /\ Cardinality(lock') <= 1
       /\ (info' # info \/ disk' # disk \/ task' # task \/ tick_pc' # tick_pc
              \/ op' # op)
             => \E who \in Tasks : lock = {who} /\ lock' = {}
       /\ op'.name \in {"tick", "complete"} /\ op' # op => lock = {"tick"}
       /\ op'.name = "autosave" /\ op' # op => lock = {"autosave"}
       /\ op'.name \in {"toggle_read", "toggle", "save"} /\ op' # op
             => lock = {"handler"}
      ]_vars

\* The handler inside its Timer call while the tick loop has a completion
\* pending: the tick loop has to wait.
C30_Witness ==
    /\ lock = {"handler"}
    /\ task.pc = "toggle"
    /\ tick_pc = "complete"
    /\ is_running(info.current_state)


\* The critical sections in which a command handler mutates SessionInfo.
Mutations ==
    {"toggle", "skip", "reset", "new_timer", "switch_to_focus",
     "switch_to_rest", "done_label"}

\* C31: every command handler that has mutated SessionInfo goes on to a save
\* before it ends, and once that save has succeeded the snapshot holds the
\* in-memory state, the command's mutation included.
C31_HandlersSave ==
    /\ (op.name \in Mutations /\ info # pre) => task.pc = "save"
    /\ (op.name = "save" /\ op.saved = "ok") => disk = Written(info)


\* C32: with the autosave loop scheduled and saves succeeding again and
\* again, the snapshot is the in-memory state again and again: every
\* mutation, also one whose own save failed or never happened, reaches the
\* disk or is superseded by a later state that does, running or not.
C32_AutosaveCatchesUp == []<>(disk = Written(info))

\* An autosave writing a paused timer.
C32_Witness ==
    /\ op.name = "autosave"
    /\ op.saved = "ok"
    /\ info.current_state = "WorkPaused"
    /\ disk = Written(info)


\* C33: no reachable state is running with the counter the tick loop
\* decrements at 0 and no completion pending; from such a state no tick
\* changes anything, so the countdown would never complete.
C33_CountdownNotStuck ==
    ~(/\ is_running(info.current_state)
      /\ ActiveCounter(info) = 0
      /\ tick_pc = "sleep")


\* C34: whenever the completion protocol sets current_state = Idle, the
\* state it overwrites is a running state whose tick-selected counter is
\* still 0.
C34_CompleteOnlyFinished ==
    op.name = "complete" =>
        /\ is_running(pre.current_state)
        /\ ActiveCounter(pre) = 0

\* C35: with notifications enabled, every run of the completion protocol
\* (one per countdown a tick took to 0) issues exactly one notification,
\* whatever a command did between the decrement and the protocol.
C35_OneNotificationEach ==
    [][(op'.name = "complete" /\ config.enable_notifications)
         => Len(notified') = Len(notified) + 1]_vars

\* C36: the effect of a toggle equals the toggle mapping applied to the
\* state held at the moment it mutates.
C36_ToggleAtomic ==
    op.name = "toggle" =>
        info = toggle(pre.current_state, pre.is_focus_mode, pre, config,
                      info.last_updated)


\* The mode flag agrees with the state tag.
Consistent(i) ==
    /\ is_work(i.current_state) => i.is_focus_mode
    /\ is_break(i.current_state) => ~i.is_focus_mode

\* C37: the mode flag agrees with the state tag after every skip_to_next
\* from a state where they agree, so the agreement is kept along every
\* sequence of operations that contains skip_to_next.
C37_ModeAgreesWithState ==
    (op.name = "skip_to_next" /\ Consistent(pre)) => Consistent(info)


\* C38: from a fresh SessionInfo under a validated Config, current_session
\* stays within 1..sessions_until_long_break, and completed_sessions never
\* decreases and changes only by +1 on a skip_to_next from a work state.
C38_SessionCounters ==
    /\ 1 <= info.current_session
    /\ info.current_session <= config.sessions_until_long_break
    /\ info.completed_sessions >= pre.completed_sessions
    /\ info.completed_sessions # pre.completed_sessions =>
         /\ op.name = "skip_to_next"
         /\ is_work(pre.current_state)
         /\ info.completed_sessions = pre.completed_sessions + 1

C38_Witness ==
    /\ op.name = "skip_to_next"
    /\ is_work(pre.current_state)
    /\ pre.current_session = config.sessions_until_long_break
    /\ config.sessions_until_long_break = MaxSessions
    /\ info.current_state = "LongBreak"
    /\ info.current_session = 1
    /\ info.completed_sessions = MaxSessions


\* C39: every step that changes the on-disk snapshot leaves on disk the
\* complete in-memory SessionInfo of that instant, so the disk never holds
\* anything but a state that memory held.
C39_SnapshotIsMemoryState ==
    [][disk' # disk => disk' = Written(info')]_vars


\* C40: a start from a successfully saved snapshot constructs a SessionInfo
\* with the snapshot's current_state and is_focus_mode (an Idle snapshot in
\* rest mode included) and its counters wherever they were nonzero, and
\* both counters are greater than 0 after startup.
C40_RestartPreservesSession ==
    (op.name = "init" /\ disk.kind = "json") =>
        LET s == from_str(disk.content).info
        IN /\ info.current_state = s.current_state
           /\ info.is_focus_mode = s.is_focus_mode
           /\ s.time_remaining_secs # 0
                 => info.time_remaining_secs = s.time_remaining_secs
           /\ s.rest_time_remaining_secs # 0
                 => info.rest_time_remaining_secs = s.rest_time_remaining_secs
           /\ info.time_remaining_secs > 0
           /\ info.rest_time_remaining_secs > 0

\* C40 (amended): the constructed SessionInfo has the snapshot's
\* current_state and its counters wherever they were nonzero, both counters
\* are greater than 0, and is_focus_mode is derived from the state: true in
\* a work state and in Idle, false in a break.  It is the snapshot's flag
\* when the snapshot was not Idle and its flag agreed with its state.
C40_RestartDerivesMode ==
    (op.name = "init" /\ disk.kind = "json") =>
        LET s == from_str(disk.content).info
        IN /\ info.current_state = s.current_state
           /\ info.is_focus_mode =
                 (is_work(s.current_state) \/ s.current_state = "Idle")
           /\ (s.current_state # "Idle" /\ Consistent(s))
                 => info.is_focus_mode = s.is_focus_mode
           /\ s.time_remaining_secs # 0
                 => info.time_remaining_secs = s.time_remaining_secs
           /\ s.rest_time_remaining_secs # 0
                 => info.rest_time_remaining_secs = s.rest_time_remaining_secs
           /\ info.time_remaining_secs > 0
           /\ info.rest_time_remaining_secs > 0

C40_Witness ==
    /\ op.name = "init"
    /\ disk.kind = "json"
    /\ from_str(disk.content).info.current_state = "Idle"
    /\ ~from_str(disk.content).info.is_focus_mode
    /\ from_str(disk.content).info.rest_time_remaining_secs = 0
    /\ info.is_focus_mode
    /\ info.rest_time_remaining_secs = short_break_duration_secs(config)

====
